---- MODULE Spec2Model ----
(***************************************************************************)
(* Model of rust-basic-string: the encoding policies (CharTraits) for      *)
(* UTF-8, UTF-16, UTF-32 and raw bytes, the decode/encode primitives       *)
(* (IntoChars, DecodeRev), validated slicing (BasicStr), the                *)
(* null-terminated derivations (BasicCStr), the owned string (BasicString) *)
(* searching (Pattern, RevPattern, find, rfind, split_once, rsplit_once),  *)
(* the Split / RSplit iterators, comparison, the fixed-capacity array      *)
(* string and the const-feature validators.                                *)
(*                                                                         *)
(* Spec applies one policy or slicing call to a raw buffer, SpecSearch one *)
(* search to a validated haystack, SpecSplit drives a split iterator over  *)
(* a validated haystack, SpecPolicy applies comparison, the checked        *)
(* constructors and the const-feature validators, SpecString builds an     *)
(* owned string by new / from_chars and grows it by push and push_str.     *)
(*                                                                         *)
(* Buffers are sequences of unit values (1-based in TLA+, 0-based in the   *)
(* source: unit i of the source is buf[i + 1] here).  Result<(), E> is a   *)
(* record with kind "Ok" or "Err"; Option<T> is <<>> for None and <<t>>    *)
(* for Some(t).                                                            *)
(***************************************************************************)
EXTENDS Integers, Sequences, FiniteSets, TLC

\* Longest input buffer explored.
MaxLen == 4

\* Longest slice passed as an argument (a needle, the operand of push_str).
MaxArgLen == 2

\* Most calls made on one split iterator.
MaxCalls == 6

----------------------------------------------------------------------------
\* Bit operations on naturals (the source works on u8 / u16 / u32).

RECURSIVE BitAnd(_, _)
BitAnd(a, b) ==
    IF a = 0 \/ b = 0 THEN 0
    ELSE (a % 2) * (b % 2) + 2 * BitAnd(a \div 2, b \div 2)

RECURSIVE BitOr(_, _)
BitOr(a, b) ==
    IF a = 0 THEN b
    ELSE IF b = 0 THEN a
    ELSE (IF (a % 2) + (b % 2) > 0 THEN 1 ELSE 0) + 2 * BitOr(a \div 2, b \div 2)

RECURSIVE Pow2(_)
Pow2(n) == IF n = 0 THEN 1 ELSE 2 * Pow2(n - 1)

\* x << n and x >> n on u32.  The source shifts a value below 2^10 by at
\* most 18 bits, so no shift reaches the 32-bit width.
Shl(x, n) == x * Pow2(n)
Shr(x, n) == x \div Pow2(n)

\* u8::leading_ones
RECURSIVE LeadingOnesFrom(_, _)
LeadingOnesFrom(b, bit) ==
    IF bit < 0 THEN 0
    ELSE IF BitAnd(b, Pow2(bit)) = 0 THEN 0
    ELSE 1 + LeadingOnesFrom(b, bit - 1)
leading_ones(b) == LeadingOnesFrom(b, 7)

----------------------------------------------------------------------------
\* Results and slices.

None == <<>>
Some(x) == <<x>>

Ok == [kind |-> "Ok"]
Err(p, l) == [kind |-> "Err", pos |-> p, len |-> l]
\* A loop of the source that repeats an iteration with its state unchanged.
Diverges == [kind |-> "Diverges"]

\* buf[lo..hi] of the source (0-based, hi exclusive)
Slice(buf, lo, hi) == SubSeq(buf, lo + 1, hi)
\* buf.get(k..).unwrap_or(&[])
SliceFrom(buf, k) == IF k <= Len(buf) THEN SubSeq(buf, k + 1, Len(buf)) ELSE <<>>

\* char::from_u32: the Unicode scalar values
IsScalar(v) == v >= 0 /\ v <= \h10FFFF /\ ~(v >= \hD800 /\ v <= \hDFFF)

----------------------------------------------------------------------------
\* UTF-8 policy (default build): validate_range is core::str::from_utf8.

IsCont(b) == BitAnd(b, \hC0) = \h80

\* core::str::validations::utf8_char_width
utf8_char_width(b) ==
    IF b < \h80 THEN 1
    ELSE IF b >= \hC2 /\ b <= \hDF THEN 2
    ELSE IF b >= \hE0 /\ b <= \hEF THEN 3
    ELSE IF b >= \hF0 /\ b <= \hF4 THEN 4
    ELSE 0

\* the (first, second) byte pairs run_utf8_validation accepts for width 3, 4
Utf8Second3(first, second) ==
    \/ first = \hE0 /\ second >= \hA0 /\ second <= \hBF
    \/ first >= \hE1 /\ first <= \hEC /\ second >= \h80 /\ second <= \hBF
    \/ first = \hED /\ second >= \h80 /\ second <= \h9F
    \/ first >= \hEE /\ first <= \hEF /\ second >= \h80 /\ second <= \hBF

Utf8Second4(first, second) ==
    \/ first = \hF0 /\ second >= \h90 /\ second <= \hBF
    \/ first >= \hF1 /\ first <= \hF3 /\ second >= \h80 /\ second <= \hBF
    \/ first = \hF4 /\ second >= \h80 /\ second <= \h8F

\* run_utf8_validation from offset `index`; the error carries valid_up_to
\* (the offset of the sequence being read) and error_len.
RECURSIVE run_utf8_validation(_, _)
run_utf8_validation(v, index) ==
    IF index >= Len(v) THEN Ok
    ELSE
      LET first == v[index + 1]
          w == utf8_char_width(first)
          has(k) == index + k < Len(v)
          at(k) == v[index + k + 1]
      IN  IF w = 1 THEN run_utf8_validation(v, index + 1)
          ELSE IF w = 2 THEN
              IF ~has(1) THEN Err(index, None)
              ELSE IF ~IsCont(at(1)) THEN Err(index, Some(1))
              ELSE run_utf8_validation(v, index + 2)
          ELSE IF w = 3 THEN
              IF ~has(1) THEN Err(index, None)
              ELSE IF ~Utf8Second3(first, at(1)) THEN Err(index, Some(1))
              ELSE IF ~has(2) THEN Err(index, None)
              ELSE IF ~IsCont(at(2)) THEN Err(index, Some(2))
              ELSE run_utf8_validation(v, index + 3)
          ELSE IF w = 4 THEN
              IF ~has(1) THEN Err(index, None)
              ELSE IF ~Utf8Second4(first, at(1)) THEN Err(index, Some(1))
              ELSE IF ~has(2) THEN Err(index, None)
              ELSE IF ~IsCont(at(2)) THEN Err(index, Some(2))
              ELSE IF ~has(3) THEN Err(index, None)
              ELSE IF ~IsCont(at(3)) THEN Err(index, Some(3))
              ELSE run_utf8_validation(v, index + 4)
          ELSE Err(index, Some(1))

validate_range_u8(buf) == run_utf8_validation(buf, 0)

\* the reversed scan of validate_subrange: i counts units from the end
RECURSIVE subrange_rev_scan_u8(_, _)
subrange_rev_scan_u8(buf, i) ==
    IF i >= Len(buf) THEN Err(Len(buf), None)
    ELSE
      LET c == buf[Len(buf) - i]
      IN  IF BitAnd(c, \hC0) = \h80 THEN subrange_rev_scan_u8(buf, i + 1)
          ELSE IF \/ (BitAnd(c, \h80) = \h00 /\ i = 0)
                  \/ (BitAnd(c, \hE0) = \hC0 /\ i = 1)
                  \/ i = 2
               THEN Ok
          ELSE subrange_rev_scan_u8(buf, i + 1)

validate_subrange_u8(buf) ==
    IF buf = <<>> THEN Ok
    ELSE IF BitAnd(buf[1], \hC0) = \h80 THEN Err(0, Some(1))
    ELSE IF Len(buf) = 1 THEN Ok
    ELSE subrange_rev_scan_u8(buf, 0)

----------------------------------------------------------------------------
\* UTF-8 policy, const-utf-char-traits build: the hand-written scan.
\* The loop state is the index i alone, so an iteration that leaves i
\* unchanged (`continue` on an ASCII byte, or no branch taken) repeats
\* forever.

ConstNext(buf, i, l) ==
    \* i += 1; read buf[i] or fail incomplete; fail with length l unless it
    \* is a continuation byte.  <<>> when the byte is accepted.
    IF ~(i + 1 < Len(buf)) THEN Some(Err(i + 1, None))
    ELSE IF BitAnd(buf[i + 2], \hC0) # \h80 THEN Some(Err(i + 1, Some(l)))
    ELSE None

RECURSIVE validate_range_u8_const_at(_, _)
validate_range_u8_const_at(buf, i) ==
    IF ~(i < Len(buf)) THEN Ok
    ELSE
      LET c == buf[i + 1]
          n1 == ConstNext(buf, i, 1)
          n2 == ConstNext(buf, i + 1, 2)
          n3 == ConstNext(buf, i + 2, 3)
      IN  IF BitAnd(c, \h80) = \h00 THEN Diverges
          ELSE IF BitAnd(c, \hC0) = \h80 THEN Err(i, Some(1))
          ELSE IF BitAnd(c, \hE0) = \hC0 THEN
              IF n1 # None THEN n1[1]
              ELSE validate_range_u8_const_at(buf, i + 1)
          ELSE IF BitAnd(c, \hF0) = \hE0 THEN
              IF n1 # None THEN n1[1]
              ELSE IF n2 # None THEN n2[1]
              ELSE validate_range_u8_const_at(buf, i + 2)
          ELSE IF BitAnd(c, \hF8) = \hF0 THEN
              IF n1 # None THEN n1[1]
              ELSE IF n2 # None THEN n2[1]
              ELSE IF n3 # None THEN n3[1]
              ELSE validate_range_u8_const_at(buf, i + 3)
          ELSE Diverges

validate_range_u8_const(buf) == validate_range_u8_const_at(buf, 0)

----------------------------------------------------------------------------
\* UTF-16 policy.

IsHigh(c) == c >= \hD800 /\ c <= \hDBFF
IsLow(c) == c >= \hDC00 /\ c <= \hDFFF

\* Faulty variant of validate_range_u16_at: a high surrogate followed by a
\* non-low unit is reported at the following index.
RECURSIVE validate_range_u16_at_late_pos(_, _)
validate_range_u16_at_late_pos(buf, i) ==
    IF i >= Len(buf) THEN Ok
    ELSE
      LET c == buf[i + 1]
      IN  IF IsHigh(c) THEN
              IF i + 1 >= Len(buf) THEN Err(i, None)
              ELSE IF ~IsLow(buf[i + 2]) THEN Err(i + 1, Some(2))
              ELSE validate_range_u16_at_late_pos(buf, i + 2)
          ELSE IF IsLow(c) THEN Err(i, Some(1))
          ELSE validate_range_u16_at_late_pos(buf, i + 1)

\* Faulty variant of validate_range_u16_at: a low surrogate is accepted as
\* the first unit of a buffer.
RECURSIVE validate_range_u16_at_low_first(_, _)
validate_range_u16_at_low_first(buf, i) ==
    IF i >= Len(buf) THEN Ok
    ELSE
      LET c == buf[i + 1]
      IN  IF IsHigh(c) THEN
              IF i + 1 >= Len(buf) THEN Err(i, None)
              ELSE IF ~IsLow(buf[i + 2]) THEN Err(i, Some(2))
              ELSE validate_range_u16_at_low_first(buf, i + 2)
          ELSE IF IsLow(c) /\ i > 0 THEN Err(i, Some(1))
          ELSE validate_range_u16_at_low_first(buf, i + 1)

\* the `while let Some((i, &c)) = iter.next()` loop, iterator at index i
RECURSIVE validate_range_u16_at(_, _)
validate_range_u16_at(buf, i) ==
    IF i >= Len(buf) THEN Ok
    ELSE
      LET c == buf[i + 1]
      IN  IF IsHigh(c) THEN
              IF i + 1 >= Len(buf) THEN Err(i, None)
              ELSE IF ~IsLow(buf[i + 2]) THEN Err(i, Some(2))
              ELSE validate_range_u16_at(buf, i + 2)
          ELSE IF IsLow(c) THEN Err(i, Some(1))
          ELSE validate_range_u16_at(buf, i + 1)

validate_range_u16(buf) == validate_range_u16_at(buf, 0)

\* Faulty variant of validate_subrange_u16: the check of the last unit is
\* left out.
validate_subrange_u16_no_tail_check(buf) ==
    IF buf # <<>> /\ IsLow(buf[1]) THEN Err(0, Some(1))
    ELSE Ok

validate_subrange_u16(buf) ==
    IF buf # <<>> /\ IsLow(buf[1]) THEN Err(0, Some(1))
    ELSE IF buf # <<>> /\ IsHigh(buf[Len(buf)]) THEN Err(Len(buf) - 1, None)
    ELSE Ok

----------------------------------------------------------------------------
\* UTF-32 and raw bytes: validation cannot fail.

validate_range_char(buf) == Ok
validate_subrange_char(buf) == Ok
validate_range_raw(buf) == Ok
validate_subrange_raw(buf) == Ok

----------------------------------------------------------------------------
\* Dispatch on the policy (the Traits type parameter).

Encodings == {"utf8", "utf16", "utf32", "raw"}

validate_range(e, buf) ==
    CASE e = "utf8" -> validate_range_u8(buf)
      [] e = "utf16" -> validate_range_u16(buf)
      [] e = "utf32" -> validate_range_char(buf)
      [] e = "raw" -> validate_range_raw(buf)

validate_subrange(e, buf) ==
    CASE e = "utf8" -> validate_subrange_u8(buf)
      [] e = "utf16" -> validate_subrange_u16(buf)
      [] e = "utf32" -> validate_subrange_char(buf)
      [] e = "raw" -> validate_subrange_raw(buf)

\* zero_term / is_zero_term: 0 in every policy
is_zero_term(c) == c = 0

----------------------------------------------------------------------------
\* BasicStr slicing.  `s` is the validated slice self.1.

Panic == [kind |-> "Panic"]

\* BasicStr::get with a range lo..hi; self.1.get(range) is None when the
\* range is out of bounds or reversed.
get(e, s, lo, hi) ==
    IF lo > hi \/ hi > Len(s) THEN None
    ELSE IF validate_subrange(e, Slice(s, lo, hi)).kind # "Ok" THEN None
    ELSE Some(Slice(s, lo, hi))

\* BasicStr::split_at: slice::split_at panics when mid > len, and each
\* unwrap() panics on a validate_subrange error.
split_at(e, s, mid) ==
    IF mid > Len(s) THEN Panic
    ELSE IF validate_subrange(e, Slice(s, 0, mid)).kind # "Ok" THEN Panic
    ELSE IF validate_subrange(e, Slice(s, mid, Len(s))).kind # "Ok" THEN Panic
    ELSE [kind |-> "Split", left |-> Slice(s, 0, mid), right |-> Slice(s, mid, Len(s))]

----------------------------------------------------------------------------
\* BasicCStr: null-terminated derivations.

\* the `while i < chars.len() - 1` scan for an early terminator
RECURSIVE early_zero_term(_, _)
early_zero_term(chars, i) ==
    IF ~(i < Len(chars) - 1) THEN FALSE
    ELSE IF is_zero_term(chars[i + 1]) THEN TRUE
    ELSE early_zero_term(chars, i + 1)

from_chars_with_null(e, chars) ==
    IF chars = <<>> THEN None
    ELSE IF is_zero_term(chars[Len(chars)]) THEN None
    ELSE IF early_zero_term(chars, 0) THEN None
    ELSE IF validate_range(e, chars).kind = "Ok" THEN Some(chars)
    ELSE None

from_chars_with_null_mut(e, chars) ==
    IF chars = <<>> THEN None
    ELSE IF is_zero_term(chars[Len(chars)]) THEN None
    ELSE IF early_zero_term(chars, 0) THEN None
    ELSE IF validate_range(e, chars).kind = "Ok" THEN Some(chars)
    ELSE None

\* Faulty variant of split_from_chars_at: the split is made before the
\* terminator instead of after it.
RECURSIVE split_from_chars_at_before_term(_, _, _)
split_from_chars_at_before_term(e, chars, i) ==
    IF i >= Len(chars) THEN None
    ELSE IF is_zero_term(chars[i + 1]) THEN
        LET left == Slice(chars, 0, i)
            right == Slice(chars, i, Len(chars))
        IN  IF validate_range(e, left).kind = "Ok"
            THEN Some([cstr |-> left, rest |-> right])
            ELSE None
    ELSE split_from_chars_at_before_term(e, chars, i + 1)

\* the `for (i, &c) in chars.iter().enumerate()` loop, from index i
RECURSIVE split_from_chars_at(_, _, _)
split_from_chars_at(e, chars, i) ==
    IF i >= Len(chars) THEN None
    ELSE IF is_zero_term(chars[i + 1]) THEN
        LET left == Slice(chars, 0, i + 1)
            right == Slice(chars, i + 1, Len(chars))
        IN  IF validate_range(e, left).kind = "Ok"
            THEN Some([cstr |-> left, rest |-> right])
            ELSE None
    ELSE split_from_chars_at(e, chars, i + 1)

split_from_chars(e, chars) == split_from_chars_at(e, chars, 0)

split_from_chars_mut(e, chars) == split_from_chars_at(e, chars, 0)

----------------------------------------------------------------------------
\* Decode / encode primitives (IntoChars, DecodeRev).
\* A decoded scalar with the rest of the buffer:

\* (Option<(char, &[Char])> and the aborted call share one record shape.)

Decoded(c, rest) == [kind |-> "Char", ch |-> c, rest |-> rest]
NoChar == [kind |-> "None", ch |-> 0, rest |-> <<>>]
Abort == [kind |-> "Panic", ch |-> 0, rest |-> <<>>]

\* char::from_u32(val)? followed by Some((c, rest))
from_u32(val, rest) == IF IsScalar(val) THEN Decoded(val, rest) ELSE NoChar

\* char::from_u32_unchecked: undefined behaviour when val is no scalar
\* value; the build either carries the raw value on or (debug assertions)
\* aborts.  The set of possible outcomes.
from_u32_unchecked(val, rest) ==
    IF IsScalar(val) THEN {Decoded(val, rest)} ELSE {Decoded(val, rest), Abort}

DropLast(buf) == SubSeq(buf, 1, Len(buf) - 1)

\* ---- UTF-8 ----

decode_buf_unchecked_u8(buf) ==
    IF BitAnd(buf[1], \h80) = \h00 THEN {Decoded(buf[1], SliceFrom(buf, 1))}
    ELSE IF BitAnd(buf[1], \hE0) = \hC0 THEN
        from_u32_unchecked(
            BitOr(Shl(BitAnd(buf[1], \h1F), 6), BitAnd(buf[2], \h3F)),
            SliceFrom(buf, 2))
    ELSE IF BitAnd(buf[1], \hF0) = \hE0 THEN
        from_u32_unchecked(
            BitOr(BitOr(Shl(BitAnd(buf[1], \h1F), 12), Shl(BitAnd(buf[2], \h3F), 6)),
                  BitAnd(buf[3], \h3F)),
            SliceFrom(buf, 3))
    ELSE
        from_u32_unchecked(
            BitOr(BitOr(BitOr(Shl(BitAnd(buf[1], \h07), 18), Shl(BitAnd(buf[2], \h3F), 12)),
                        Shl(BitAnd(buf[3], \h3F), 6)),
                  BitAnd(buf[4], \h3F)),
            SliceFrom(buf, 4))

decode_buf_u8(buf) ==
    IF Len(buf) < 1 THEN NoChar
    ELSE
      LET c0 == buf[1]
      IN  IF BitAnd(c0, \h80) = \h00 THEN Decoded(c0, SliceFrom(buf, 1))
          ELSE IF BitAnd(c0, \hE0) = \hC0 THEN
              IF Len(buf) < 2 THEN NoChar
              ELSE from_u32(BitOr(Shl(BitAnd(c0, \h1F), 6), BitAnd(buf[2], \h3F)),
                            SliceFrom(buf, 2))
          ELSE IF BitAnd(c0, \hF0) = \hE0 THEN
              IF Len(buf) < 3 THEN NoChar
              ELSE from_u32(BitOr(BitOr(Shl(BitAnd(c0, \h0F), 12),
                                        Shl(BitAnd(buf[2], \h3F), 6)),
                                  BitAnd(buf[3], \h3F)),
                            SliceFrom(buf, 3))
          ELSE IF BitAnd(c0, \hF8) = \hF0 THEN
              IF Len(buf) < 4 THEN NoChar
              ELSE from_u32(BitOr(BitOr(BitOr(Shl(BitAnd(c0, \h07), 18),
                                              Shl(BitAnd(buf[2], \h3F), 12)),
                                        Shl(BitAnd(buf[3], \h3F), 6)),
                                  BitAnd(buf[4], \h3F)),
                            SliceFrom(buf, 4))
          ELSE NoChar

\* char::encode_utf8
encode_u8(c) ==
    IF c < \h80 THEN <<c>>
    ELSE IF c < \h800 THEN
        <<BitOr(\hC0, Shr(c, 6)), BitOr(\h80, BitAnd(c, \h3F))>>
    ELSE IF c < \h10000 THEN
        <<BitOr(\hE0, Shr(c, 12)), BitOr(\h80, BitAnd(Shr(c, 6), \h3F)),
          BitOr(\h80, BitAnd(c, \h3F))>>
    ELSE
        <<BitOr(\hF0, Shr(c, 18)), BitOr(\h80, BitAnd(Shr(c, 12), \h3F)),
          BitOr(\h80, BitAnd(Shr(c, 6), \h3F)), BitOr(\h80, BitAnd(c, \h3F))>>

\* the `for i in 0..` loop of decode_back_unchecked: split_last on an empty
\* buffer is undefined behaviour (unwrap_unchecked)
RECURSIVE decode_back_unchecked_u8_at(_, _, _)
decode_back_unchecked_u8_at(buf, i, val) ==
    IF buf = <<>> THEN {Abort, Decoded(val, <<>>)}
    ELSE
      LET b == buf[Len(buf)]
          rest == DropLast(buf)
      IN  IF BitAnd(b, \hC0) # \h80 THEN
              from_u32_unchecked(
                  BitOr(val, Shl(BitAnd(b, Shr(\h100, i) - 1), 6 * i)), rest)
          ELSE decode_back_unchecked_u8_at(
                  rest, i + 1, BitOr(val, Shl(BitAnd(b, \h3F), 6 * i)))

decode_back_unchecked_u8(buf) == decode_back_unchecked_u8_at(buf, 0, 0)

RECURSIVE decode_back_u8_at(_, _, _)
decode_back_u8_at(buf, i, val) ==
    IF i = 4 THEN NoChar
    ELSE IF buf = <<>> THEN NoChar
    ELSE
      LET b == buf[Len(buf)]
          rest == DropLast(buf)
      IN  IF BitAnd(b, \hC0) # \h80 THEN
              IF (i = 0 /\ leading_ones(b) # 1) \/ (leading_ones(b) # i + 1)
              THEN NoChar
              ELSE from_u32(
                  BitOr(val, Shl(BitAnd(b, Shr(\h100, i) - 1), 6 * i)), rest)
          ELSE decode_back_u8_at(
                  rest, i + 1, BitOr(val, Shl(BitAnd(b, \h3F), 6 * i)))

decode_back_u8(buf) == decode_back_u8_at(buf, 0, 0)

\* ---- UTF-16 ----

\* ((v0 - 0xD800) as u32) << 10 | ((v1 - 0xDC00) as u32); the u16
\* subtraction wraps in a release build
SurrogateVal(v0, v1) ==
    BitOr(Shl((v0 - \hD800) % Pow2(16), 10), (v1 - \hDC00) % Pow2(16))

\* a get_unchecked / unwrap_unchecked past the end of the slice is undefined
\* behaviour: the call aborts or goes on with whatever unit it reads
OutOfBounds16 == {\h0000, \hD800, \hDC00, \hFFFF}

decode_buf_unchecked_u16(buf) ==
    LET v0 == buf[1]
    IN  IF IsHigh(v0) THEN
            IF Len(buf) < 2
            THEN {Abort} \cup UNION {from_u32_unchecked(SurrogateVal(v0, v1), <<>>)
                                        : v1 \in OutOfBounds16}
            ELSE from_u32_unchecked(SurrogateVal(v0, buf[2]), SliceFrom(buf, 2))
        ELSE from_u32_unchecked(v0, SliceFrom(buf, 1))

\* Option<(char, &[Char])>, as the set of possible outcomes: with a high
\* surrogate followed by a unit below 0xDC00 the u16 subtraction overflows
\* (panic with overflow checks, wrap without)
decode_buf_u16(buf) ==
    IF Len(buf) < 1 THEN {NoChar}
    ELSE
      LET v0 == buf[1]
      IN  IF IsHigh(v0) THEN
              IF Len(buf) < 2 THEN {NoChar}
              ELSE IF IsLow(buf[2]) THEN {NoChar}
              ELSE {from_u32(SurrogateVal(v0, buf[2]), SliceFrom(buf, 2))}
                   \cup (IF buf[2] < \hDC00 THEN {Abort} ELSE {})
          ELSE {from_u32(v0, SliceFrom(buf, 2))}

\* char::encode_utf16
encode_u16(c) ==
    IF c < \h10000 THEN <<c>>
    ELSE <<BitOr(\hD800, Shr(c - \h10000, 10)),
           BitOr(\hDC00, BitAnd(c - \h10000, \h3FF))>>

decode_back_unchecked_u16(buf) ==
    LET v1 == buf[Len(buf)]
        rest == DropLast(buf)
    IN  IF IsLow(v1) THEN
            IF rest = <<>>
            THEN {Abort} \cup UNION {from_u32_unchecked(SurrogateVal(v0, v1), <<>>)
                                        : v0 \in OutOfBounds16}
            ELSE from_u32_unchecked(SurrogateVal(rest[Len(rest)], v1), DropLast(rest))
        ELSE from_u32_unchecked(v1, rest)

\* decode_back builds the char with from_u32_unchecked and wraps it in Some
decode_back_u16(buf) ==
    IF buf = <<>> THEN {NoChar}
    ELSE
      LET v1 == buf[Len(buf)]
          rest == DropLast(buf)
      IN  IF IsLow(v1) THEN
              IF rest = <<>> THEN {NoChar}
              ELSE IF ~IsHigh(rest[Len(rest)]) THEN {NoChar}
              ELSE from_u32_unchecked(SurrogateVal(rest[Len(rest)], v1), DropLast(rest))
          ELSE from_u32_unchecked(v1, rest)

\* ---- UTF-32 ----

decode_buf_unchecked_char(buf) == {Decoded(buf[1], SliceFrom(buf, 1))}

decode_buf_char(buf) ==
    IF Len(buf) < 1 THEN NoChar ELSE Decoded(buf[1], SliceFrom(buf, 1))

encode_char(c) == <<c>>

decode_back_char(buf) ==
    IF buf = <<>> THEN NoChar ELSE Decoded(buf[Len(buf)], DropLast(buf))

decode_back_unchecked_char(buf) == {decode_back_char(buf)}

\* ---- dispatch ----

DecodingEncodings == {"utf8", "utf16", "utf32"}

max_encoding_len(e) ==
    CASE e = "utf8" -> 4
      [] e = "utf16" -> 2
      [] e = "utf32" -> 1

\* encode(c, buf): panics when buf cannot hold the units; returns the
\* written prefix of buf
encode(e, c, buf) ==
    LET units == CASE e = "utf8" -> encode_u8(c)
                   [] e = "utf16" -> encode_u16(c)
                   [] e = "utf32" -> encode_char(c)
    IN  IF Len(units) > Len(buf) THEN Panic
        ELSE [kind |-> "Written", units |-> units]

\* the set of possible outcomes of each primitive
decode_buf(e, buf) ==
    CASE e = "utf8" -> {decode_buf_u8(buf)}
      [] e = "utf16" -> decode_buf_u16(buf)
      [] e = "utf32" -> {decode_buf_char(buf)}

decode_buf_unchecked(e, buf) ==
    CASE e = "utf8" -> decode_buf_unchecked_u8(buf)
      [] e = "utf16" -> decode_buf_unchecked_u16(buf)
      [] e = "utf32" -> decode_buf_unchecked_char(buf)

decode_back(e, buf) ==
    CASE e = "utf8" -> {decode_back_u8(buf)}
      [] e = "utf16" -> decode_back_u16(buf)
      [] e = "utf32" -> {decode_back_char(buf)}

decode_back_unchecked(e, buf) ==
    CASE e = "utf8" -> decode_back_unchecked_u8(buf)
      [] e = "utf16" -> decode_back_unchecked_u16(buf)
      [] e = "utf32" -> decode_back_unchecked_char(buf)

\* encoding_len: char::len_utf8 for UTF-8, the `< 0xFFFF` test for UTF-16,
\* 1 for UTF-32
encoding_len_u8(c) ==
    IF c < \h80 THEN 1
    ELSE IF c < \h800 THEN 2
    ELSE IF c < \h10000 THEN 3
    ELSE 4

encoding_len_u16(c) == IF c < \hFFFF THEN 1 ELSE 2

encoding_len_char(c) == 1

encoding_len(e, c) ==
    CASE e = "utf8" -> encoding_len_u8(c)
      [] e = "utf16" -> encoding_len_u16(c)
      [] e = "utf32" -> encoding_len_char(c)

----------------------------------------------------------------------------
\* BasicString: the owned string.  `inner` is the Vec of units.

zero_term == 0

\* Vec::resize_with(len, Traits::zero_term)
resize_with(inner, len) ==
    IF len <= Len(inner) THEN SubSeq(inner, 1, len)
    ELSE inner \o [i \in 1..(len - Len(inner)) |-> zero_term]

\* Faulty variant of push: only one unit is reserved and only the first
\* unit of the encoding is kept.
push_first_unit_only(e, inner, c) ==
    LET base_len == Len(inner)
        r == encode(e, c, [i \in 1..max_encoding_len(e) |-> zero_term])
    IN  [kind |-> "Done", inner |-> inner \o SubSeq(r.units, 1, 1)]

\* push(c): the contents of the Vec after the call, or after the panic of
\* encode on a tail that is too short
push(e, inner, c) ==
    LET base_len == Len(inner)
        len == base_len + encoding_len(e, c)
        resized == resize_with(inner, len)
        right == SliceFrom(resized, base_len)
        r == encode(e, c, right)
    IN  IF r.kind = "Panic" THEN [kind |-> "Panic", inner |-> resized]
        ELSE [kind |-> "Done",
              inner |-> Slice(resized, 0, base_len) \o r.units
                            \o SliceFrom(right, Len(r.units))]

\* push_str(s): extend_from_slice(s.as_chars())
push_str(inner, s) == inner \o s

\* Faulty variant of from_chars: the rejected buffer is dropped.
from_chars_dropping_buffer(e, chars) ==
    LET v == validate_range(e, chars)
    IN  IF v.kind = "Ok" THEN [kind |-> "Ok", inner |-> chars]
        ELSE [kind |-> "Err", err |-> v, chars |-> <<>>]

\* BasicString::from_chars: Ok(Self { inner: chars }) or
\* Err(FromCharsError { err, chars })
from_chars(e, chars) ==
    LET v == validate_range(e, chars)
    IN  IF v.kind = "Ok" THEN [kind |-> "Ok", inner |-> chars]
        ELSE [kind |-> "Err", err |-> v, chars |-> chars]

\* FromCharsError accessors
into_bytes(error) == error.chars
as_bytes(error) == error.chars
chars_error(error) == error.err

----------------------------------------------------------------------------
\* Patterns (Pattern, RevPattern).  A pattern is a record: kind "char" (one
\* scalar), "fn" (a predicate, given by the scalars it accepts), "chars" (a
\* slice of scalars) or "str" (a validated slice, the needle).  A match is
\* the subslice `len` units long that starts `begin` units into the
\* haystack.

CharPattern(c) == [kind |-> "char", chars |-> {c}, units |-> <<>>]
FnPattern(accepted) == [kind |-> "fn", chars |-> accepted, units |-> <<>>]
CharsPattern(cs) == [kind |-> "chars", chars |-> cs, units |-> <<>>]
StrPattern(s) == [kind |-> "str", chars |-> {}, units |-> s]

\* c == *self, (*self)(c), self.contains(&c)
Accepts(pat, c) == c \in pat.chars

Match(b, l) == [kind |-> "Match", begin |-> b, len |-> l]
NoMatch == [kind |-> "None", begin |-> 0, len |-> 0]
MatchPanic == [kind |-> "Panic", begin |-> 0, len |-> 0]

\* ---- BasicStr as a pattern ----

\* the loop `for i in 0..(slice.len() - self.len())`, at index i
RECURSIVE first_match_str_at(_, _, _)
first_match_str_at(needle, slice, i) ==
    IF i >= Len(slice) - Len(needle) THEN NoMatch
    ELSE IF needle = Slice(SliceFrom(slice, i), 0, Len(needle))
         THEN Match(i, Len(needle))
    ELSE first_match_str_at(needle, slice, i + 1)

\* Faulty variant of first_match_str: the length test is left out and the
\* subtraction of the lengths overflows.
first_match_str_no_len_check(needle, slice) ==
    IF Len(slice) < Len(needle) THEN MatchPanic
    ELSE first_match_str_at(needle, slice, 0)

first_match_str(needle, slice) ==
    IF Len(slice) < Len(needle) THEN NoMatch
    ELSE first_match_str_at(needle, slice, 0)

\* the loop `for i in (0..(slice.len() - self.len())).rev()`, at index i;
\* `&slice[..i][..self.len()]` panics when self.len() > i and is otherwise
\* the first self.len() units of the haystack
RECURSIVE last_match_str_at(_, _, _)
last_match_str_at(needle, slice, i) ==
    IF i < 0 THEN NoMatch
    ELSE IF Len(needle) > i THEN MatchPanic
    ELSE IF needle = Slice(Slice(slice, 0, i), 0, Len(needle))
         THEN Match(0, Len(needle))
    ELSE last_match_str_at(needle, slice, i - 1)

last_match_str(needle, slice) ==
    IF Len(slice) < Len(needle) THEN NoMatch
    ELSE last_match_str_at(needle, slice, Len(slice) - Len(needle) - 1)

\* ---- char, Fn(char) -> bool and [char] as patterns ----
\* `slice` is the part of the haystack still to search, `off` the number
\* of units before it.  Each operator is the set of possible outcomes.

\* Faulty variant of first_match_char_at: the match is taken without the
\* bounds check of `&slice[..encoding_len(c)]`.
RECURSIVE first_match_char_at_unchecked_len(_, _, _, _)
first_match_char_at_unchecked_len(e, pat, slice, off) ==
    UNION {
        IF r.kind = "Panic" THEN {MatchPanic}
        ELSE IF r.kind = "None" THEN {NoMatch}
        ELSE IF Accepts(pat, r.ch) THEN {Match(off, encoding_len(e, r.ch))}
        ELSE first_match_char_at_unchecked_len(e, pat, r.rest,
                                  off + Len(slice) - Len(r.rest))
        : r \in decode_buf(e, slice)}

\* first_match: `while let Some((c, rest)) = Traits::decode_buf(slice)`
RECURSIVE first_match_char_at(_, _, _, _)
first_match_char_at(e, pat, slice, off) ==
    UNION {
        IF r.kind = "Panic" THEN {MatchPanic}
        ELSE IF r.kind = "None" THEN {NoMatch}
        ELSE IF Accepts(pat, r.ch) THEN
            IF encoding_len(e, r.ch) > Len(slice) THEN {MatchPanic}
            ELSE {Match(off, encoding_len(e, r.ch))}
        ELSE first_match_char_at(e, pat, r.rest, off + Len(slice) - Len(r.rest))
        : r \in decode_buf(e, slice)}

first_match_char(e, pat, slice) == first_match_char_at(e, pat, slice, 0)

\* first_match_unchecked: `while !slice.is_empty()` over decode_buf_unchecked
RECURSIVE first_match_unchecked_char_at(_, _, _, _)
first_match_unchecked_char_at(e, pat, slice, off) ==
    IF slice = <<>> THEN {NoMatch}
    ELSE UNION {
        IF r.kind = "Panic" THEN {MatchPanic}
        ELSE IF Accepts(pat, r.ch) THEN
            IF encoding_len(e, r.ch) > Len(slice) THEN {MatchPanic}
            ELSE {Match(off, encoding_len(e, r.ch))}
        ELSE first_match_unchecked_char_at(e, pat, r.rest,
                                           off + Len(slice) - Len(r.rest))
        : r \in decode_buf_unchecked(e, slice)}

first_match_unchecked_char(e, pat, slice) ==
    first_match_unchecked_char_at(e, pat, slice, 0)

\* last_match: `while let Some((c, rest)) = Traits::decode_back(slice)`;
\* rest and slice start at the same address, so pos is 0 and the match
\* `&slice[pos..]` is the whole of the slice still to search
RECURSIVE last_match_char(_, _, _)
last_match_char(e, pat, slice) ==
    UNION {
        IF r.kind = "Panic" THEN {MatchPanic}
        ELSE IF r.kind = "None" THEN {NoMatch}
        ELSE IF Accepts(pat, r.ch) THEN {Match(0, Len(slice))}
        ELSE last_match_char(e, pat, r.rest)
        : r \in decode_back(e, slice)}

\* last_match_unchecked: `while !slice.is_empty()` over decode_back_unchecked
RECURSIVE last_match_unchecked_char(_, _, _)
last_match_unchecked_char(e, pat, slice) ==
    IF slice = <<>> THEN {NoMatch}
    ELSE UNION {
        IF r.kind = "Panic" THEN {MatchPanic}
        ELSE IF Accepts(pat, r.ch) THEN {Match(0, Len(slice))}
        ELSE last_match_unchecked_char(e, pat, r.rest)
        : r \in decode_back_unchecked(e, slice)}

\* ---- dispatch on the pattern type ----

first_match(e, pat, slice) ==
    IF pat.kind = "str" THEN {first_match_str(pat.units, slice)}
    ELSE first_match_char(e, pat, slice)

\* the default body of first_match_unchecked is first_match
first_match_unchecked(e, pat, slice) ==
    IF pat.kind = "str" THEN first_match(e, pat, slice)
    ELSE first_match_unchecked_char(e, pat, slice)

last_match(e, pat, slice) ==
    IF pat.kind = "str" THEN {last_match_str(pat.units, slice)}
    ELSE last_match_char(e, pat, slice)

last_match_unchecked(e, pat, slice) ==
    IF pat.kind = "str" THEN last_match(e, pat, slice)
    ELSE last_match_unchecked_char(e, pat, slice)

\* ---- BasicStr::find, rfind, split_once, rsplit_once ----
\* `begin` is pat.as_ptr().offset_from(self.as_ptr())

Found(p) == [kind |-> "Some", pos |-> p]
NotFound == [kind |-> "None", pos |-> 0]
FindPanic == [kind |-> "Panic", pos |-> 0]

SplitPair(a, b) == [kind |-> "Some", before |-> a, after |-> b]
NoSplit == [kind |-> "None", before |-> <<>>, after |-> <<>>]
SplitPanic == [kind |-> "Panic", before |-> <<>>, after |-> <<>>]

OffsetOf(m) ==
    CASE m.kind = "Match" -> Found(m.begin)
      [] m.kind = "None" -> NotFound
      [] m.kind = "Panic" -> FindPanic

\* (get_unchecked(..begin), get_unchecked(end..)) with end = begin + pat.len()
SplitAround(s, m) ==
    CASE m.kind = "Match" ->
            SplitPair(Slice(s, 0, m.begin), SliceFrom(s, m.begin + m.len))
      [] m.kind = "None" -> NoSplit
      [] m.kind = "Panic" -> SplitPanic

find(e, s, pat) == {OffsetOf(m) : m \in first_match_unchecked(e, pat, s)}

rfind(e, s, pat) == {OffsetOf(m) : m \in last_match_unchecked(e, pat, s)}

split_once(e, s, delimiter) ==
    {SplitAround(s, m) : m \in first_match_unchecked(e, delimiter, s)}

rsplit_once(e, s, delimiter) ==
    {SplitAround(s, m) : m \in last_match_unchecked(e, delimiter, s)}


----------------------------------------------------------------------------
\* Split and RSplit: the iterator is (Option<&BasicStr>, P), here the record
\* [kind, rest, pat]; an item is what one call returns.

split(s, pat) == [kind |-> "split", rest |-> Some(s), pat |-> pat]
rsplit(s, pat) == [kind |-> "rsplit", rest |-> Some(s), pat |-> pat]

SomeItem(x) == [kind |-> "Some", item |-> x]
NoItem == [kind |-> "None", item |-> <<>>]
PanicItem == [kind |-> "Panic", item |-> <<>>]

\* the outcome of one call: the item returned and the iterator left behind
Step(ret, it) == [ret |-> ret, iter |-> it]

\* the body shared by Split::next and RSplit::next_back: self.0.take(),
\* then the first match in what was left
\* (a panic of the matcher unwinds after take(), so nothing is left)
NextFront(e, it) ==
    IF it.rest = None THEN {Step(NoItem, it)}
    ELSE
      LET test == it.rest[1]
      IN  {CASE m.kind = "Match" ->
                   Step(SomeItem(Slice(test, 0, m.begin)),
                        [it EXCEPT !.rest = Some(SliceFrom(test, m.begin + m.len))])
             [] m.kind = "None" -> Step(SomeItem(test), [it EXCEPT !.rest = None])
             [] m.kind = "Panic" -> Step(PanicItem, [it EXCEPT !.rest = None])
           : m \in first_match_unchecked(e, it.pat, test)}

\* the body shared by RSplit::next and Split::next_back: the last match
NextBack(e, it) ==
    IF it.rest = None THEN {Step(NoItem, it)}
    ELSE
      LET test == it.rest[1]
      IN  {CASE m.kind = "Match" ->
                   Step(SomeItem(SliceFrom(test, m.begin + m.len)),
                        [it EXCEPT !.rest = Some(Slice(test, 0, m.begin))])
             [] m.kind = "None" -> Step(SomeItem(test), [it EXCEPT !.rest = None])
             [] m.kind = "Panic" -> Step(PanicItem, [it EXCEPT !.rest = None])
           : m \in last_match_unchecked(e, it.pat, test)}

Split_next(e, it) == NextFront(e, it)
Split_next_back(e, it) == NextBack(e, it)
RSplit_next(e, it) == NextBack(e, it)

----------------------------------------------------------------------------
\* UTF-8 policy, const-utf-char-traits build: validate_subrange.  The loop
\* state is (i, l); `continue` on a continuation byte leaves both unchanged.

RECURSIVE validate_subrange_u8_const_at(_, _, _)
validate_subrange_u8_const_at(buf, i, l) ==
    IF ~(i < 3) THEN Err(Len(buf), None)
    ELSE
      LET c == buf[l + 1]
      IN  IF BitAnd(c, \hC0) = \h80 THEN Diverges
          ELSE IF \/ BitAnd(c, \h80) = \h00 /\ i = 0
                  \/ BitAnd(c, \hE0) = \hC0 /\ i = 1
                  \/ i = 2
               THEN Ok
          ELSE IF l = 0 THEN Err(Len(buf), None)
          ELSE validate_subrange_u8_const_at(buf, i + 1, l - 1)

validate_subrange_u8_const(buf) ==
    IF buf = <<>> THEN Ok
    ELSE IF BitAnd(buf[1], \hC0) = \h80 THEN Err(0, Some(1))
    ELSE IF Len(buf) = 1 THEN Ok
    ELSE validate_subrange_u8_const_at(buf, 0, Len(buf) - 1)

\* UTF-16 policy, const-utf-char-traits build: validate_range.  The loop
\* state is the index i alone; a unit outside the surrogate ranges takes no
\* branch and leaves i unchanged.
RECURSIVE validate_range_u16_const_at(_, _)
validate_range_u16_const_at(buf, i) ==
    IF ~(i < Len(buf)) THEN Ok
    ELSE
      LET c == buf[i + 1]
      IN  IF \hD800 <= c /\ c <= \hDBFF THEN
              IF ~(i + 1 < Len(buf)) THEN Err(i + 1, None)
              ELSE IF ~(\hDC00 <= buf[i + 2]) /\ buf[i + 2] <= \hDFFF
                   THEN Err(i + 1, Some(2))
              ELSE validate_range_u16_const_at(buf, i + 1)
          ELSE IF \hDC00 <= c /\ c <= \hDFFF THEN Err(i, Some(1))
          ELSE Diverges

validate_range_u16_const(buf) == validate_range_u16_const_at(buf, 0)

----------------------------------------------------------------------------
\* compare.

OkOrdering(o) == [kind |-> "Ok", ord |-> o]

\* RawCharTraits::compare: the `while i < r1.len() && i < r2.len()` loop at
\* index i, then the comparison of the lengths
RECURSIVE compare_raw_at(_, _, _)
compare_raw_at(r1, r2, i) ==
    IF i < Len(r1) /\ i < Len(r2) THEN
        IF r1[i + 1] < r2[i + 1] THEN OkOrdering("Less")
        ELSE IF r1[i + 1] = r2[i + 1] THEN compare_raw_at(r1, r2, i + 1)
        ELSE OkOrdering("Greater")
    ELSE IF Len(r1) < Len(r2) THEN OkOrdering("Less")
    ELSE IF Len(r1) = Len(r2) THEN OkOrdering("Equal")
    ELSE OkOrdering("Greater")

compare_raw(r1, r2) == compare_raw_at(r1, r2, 0)

\* <[T] as Ord>::cmp of core: the elements of the common prefix in turn
RECURSIVE slice_cmp_at(_, _, _)
slice_cmp_at(r1, r2, i) ==
    IF i < Len(r1) /\ i < Len(r2) THEN
        IF r1[i + 1] < r2[i + 1] THEN "Less"
        ELSE IF r1[i + 1] > r2[i + 1] THEN "Greater"
        ELSE slice_cmp_at(r1, r2, i + 1)
    ELSE IF Len(r1) < Len(r2) THEN "Less"
    ELSE IF Len(r1) > Len(r2) THEN "Greater"
    ELSE "Equal"

\* Faulty variant of slice_cmp: the lengths are not compared.
slice_cmp_common_prefix(r1, r2) ==
    LET l == IF Len(r1) < Len(r2) THEN Len(r1) ELSE Len(r2)
    IN  slice_cmp_at(SubSeq(r1, 1, l), SubSeq(r2, 1, l), 0)

slice_cmp(r1, r2) == slice_cmp_at(r1, r2, 0)

\* UtfCharTraits<u8 / u16 / char>::compare
compare_utf(r1, r2) == OkOrdering(slice_cmp(r1, r2))

compare(e, r1, r2) ==
    IF e = "raw" THEN compare_raw(r1, r2) ELSE compare_utf(r1, r2)

----------------------------------------------------------------------------
\* ArrayString<N>: TryFrom<&str>.

LengthError(len) == [kind |-> "Err", len |-> len]
\* the array read through the cast of the slice pointer to *const [u8; N]
ArrayFromStr(N, x) == [kind |-> "Ok", chars |-> [i \in 1..N |-> x[i]]]

\* Faulty variant of try_from_str: a longer text is cut to the capacity.
try_from_str_truncating(N, x) ==
    IF Len(x) < N THEN LengthError(Len(x)) ELSE ArrayFromStr(N, x)

try_from_str(N, x) ==
    IF Len(x) # N THEN LengthError(Len(x)) ELSE ArrayFromStr(N, x)

\* BasicArrayString::as_chars
array_as_chars(a) == a.chars

----------------------------------------------------------------------------
\* BasicStr::from_chars, for the policy whose validate_range returned v.

OkStr(chars) == [kind |-> "Ok", chars |-> chars]

\* Faulty variant of str_from_chars: the buffer is wrapped unvalidated.
str_from_chars_unvalidated(v, chars) == OkStr(chars)

str_from_chars(v, chars) ==
    IF v.kind = "Ok" THEN OkStr(chars) ELSE v

\* BasicStr::as_chars
str_as_chars(s) == s.chars

\* The policy of the tests of from_chars: a u8 policy in which the element
\* 0xff is invalid.  TestCharTraitsError(i) has first_error_pos i and
\* first_error_len Some(1).
TestCharTraitsError(i) == Err(i, Some(1))

RECURSIVE TestCharTraits_validate_range_at(_, _)
TestCharTraits_validate_range_at(buf, i) ==
    IF ~(i < Len(buf)) THEN Ok
    ELSE IF buf[i + 1] = \hFF THEN TestCharTraitsError(i)
    ELSE TestCharTraits_validate_range_at(buf, i + 1)

TestCharTraits_validate_range(buf) == TestCharTraits_validate_range_at(buf, 0)

----------------------------------------------------------------------------
\* Inputs.  Each alphabet holds the unit classes the policies tell apart.

\* NUL, '(', a continuation byte, leads of 2, 3 and 4 bytes (0xE0 followed
\* by 0x82 is an overlong form), and the invalid byte 0xFF
Bytes == {\h00, \h28, \h82, \hC3, \hE0, \hE2, \hF1, \hFF}
\* NUL, 'A', the bounds of the high and low surrogate ranges, 0xFFFF
Units16 == {\h0000, \h0041, \hD800, \hDBFF, \hDC00, \hDFFF, \hFFFF}
Chars32 == {\h0000, \h0041, \h20AC, \h1F600}
RawBytes == {\h00, \h41, \hFF}

Alphabet(e) ==
    CASE e = "utf8" -> Bytes
      [] e = "utf16" -> Units16
      [] e = "utf32" -> Chars32
      [] e = "raw" -> RawBytes

\* scalar values at the edges of each encoded length
Scalars == {\h00, \h28, \h7F, \h80, \hE9, \h7FF, \h800, \h20AC, \hD7FF, \hE000,
            \hFFFF, \h10000, \h1F600, \h10FFFF}

BoundedSeq(S, n) == UNION {[1..k -> S] : k \in 0..n}

----------------------------------------------------------------------------
\* State: a policy, a raw buffer of its units handed to the library, and
\* the last operation applied to it with its arguments and result; for the
\* split iterators, the iterator and the items it has yielded so far.

VARIABLES enc, buf, origin, op, args, res, iter, yielded

vars == <<enc, buf, origin, op, args, res, iter, yielded>>

Init ==
    /\ enc \in Encodings
    /\ buf \in BoundedSeq(Alphabet(enc), MaxLen)
    /\ origin = None
    /\ op = "init"
    /\ args = <<>>
    /\ res = <<>>
    /\ iter = None
    /\ yielded = <<>>

\* the invariant of BasicStr: the slice passes validate_range
IsValid == validate_range(enc, buf).kind = "Ok"

\* Every operation is a function of the buffer alone, so a behaviour applies
\* one operation to its input, or to the units a preceding encode wrote.
Fresh == op \in {"init", "encode"}

Apply(name, a, r) ==
    /\ Fresh
    /\ op' = name
    /\ args' = a
    /\ res' = r
    /\ UNCHANGED <<enc, buf, origin, iter, yielded>>

ValidateRange ==
    /\ enc \in Encodings
    /\ Apply("validate_range", <<>>, validate_range(enc, buf))

ValidateRangeConst ==
    /\ enc = "utf8"
    /\ Apply("validate_range_const", <<>>, validate_range_u8_const(buf))

\* validate_subrange on the subrange lo..hi of a validated buffer
ValidateSubrange ==
    /\ IsValid
    /\ \E lo \in 0..Len(buf) : \E hi \in lo..Len(buf) :
         Apply("validate_subrange", <<lo, hi>>,
               validate_subrange(enc, Slice(buf, lo, hi)))

Get ==
    /\ IsValid
    /\ \E lo \in 0..Len(buf) + 1 : \E hi \in 0..Len(buf) + 1 :
         Apply("get", <<lo, hi>>, get(enc, buf, lo, hi))

SplitAt ==
    /\ IsValid
    /\ \E mid \in 0..Len(buf) + 1 :
         Apply("split_at", <<mid>>, split_at(enc, buf, mid))

FromCharsWithNull ==
    /\ enc \in Encodings
    /\ Apply("from_chars_with_null", <<>>, from_chars_with_null(enc, buf))

FromCharsWithNullMut ==
    /\ enc \in Encodings
    /\ Apply("from_chars_with_null_mut", <<>>, from_chars_with_null_mut(enc, buf))

SplitFromChars ==
    /\ enc \in Encodings
    /\ Apply("split_from_chars", <<>>, split_from_chars(enc, buf))

SplitFromCharsMut ==
    /\ enc \in Encodings
    /\ Apply("split_from_chars_mut", <<>>, split_from_chars_mut(enc, buf))

\* encode(c, b) into a buffer b of max_encoding_len units; the units
\* written become the buffer under inspection
Encode ==
    /\ enc \in DecodingEncodings
    /\ Fresh
    /\ \E c \in Scalars :
         LET r == encode(enc, c, [i \in 1..max_encoding_len(enc) |-> 0])
         IN  /\ r.kind = "Written"
             /\ buf' = r.units
             /\ origin' = Some(c)
             /\ op' = "encode"
             /\ args' = <<c>>
             /\ res' = r
             /\ UNCHANGED <<enc, iter, yielded>>

DecodeBuf ==
    /\ enc \in DecodingEncodings
    /\ \E r \in decode_buf(enc, buf) : Apply("decode_buf", <<>>, r)

\* the unchecked primitives require a validated buffer; the callers pass a
\* non-empty one
DecodeBufUnchecked ==
    /\ enc \in DecodingEncodings
    /\ IsValid /\ buf # <<>>
    /\ \E r \in decode_buf_unchecked(enc, buf) : Apply("decode_buf_unchecked", <<>>, r)

DecodeBack ==
    /\ enc \in DecodingEncodings
    /\ \E r \in decode_back(enc, buf) : Apply("decode_back", <<>>, r)

DecodeBackUnchecked ==
    /\ enc \in DecodingEncodings
    /\ IsValid /\ buf # <<>>
    /\ \E r \in decode_back_unchecked(enc, buf) : Apply("decode_back_unchecked", <<>>, r)

Next ==
    \/ ValidateRange
    \/ ValidateRangeConst
    \/ ValidateSubrange
    \/ Get
    \/ SplitAt
    \/ FromCharsWithNull
    \/ FromCharsWithNullMut
    \/ SplitFromChars
    \/ SplitFromCharsMut
    \/ Encode
    \/ DecodeBuf
    \/ DecodeBufUnchecked
    \/ DecodeBack
    \/ DecodeBackUnchecked

Spec == Init /\ [][Next]_vars

----------------------------------------------------------------------------
\* Searching.  The haystack `buf` is a BasicStr, so it passes
\* validate_range; the pattern is the argument of the call.

\* the validated slices of at most n units
ValidSeqs(e, n) ==
    {s \in BoundedSeq(Alphabet(e), n) : validate_range(e, s).kind = "Ok"}

\* the scalars searched for: those the alphabets can spell, and U+20AC
PatScalars == {\h00, \h28, \h41, \hC2, \h2082, \h20AC, \hFFFF, \h10000,
               \h42082, \h1F600}

\* char::is_ascii, as the scalars it accepts
IsAscii == 0..\h7F

Patterns(e) ==
    {StrPattern(s) : s \in ValidSeqs(e, MaxArgLen)}
    \cup (IF e \in DecodingEncodings
          THEN {CharPattern(c) : c \in PatScalars}
               \cup {FnPattern(IsAscii)}
               \cup {CharsPattern({\h28, \h41, \h10000}), CharsPattern({})}
          ELSE {})

InitSearch ==
    /\ Init
    /\ IsValid

FirstMatch ==
    /\ Fresh
    /\ IsValid
    /\ \E pat \in Patterns(enc) : \E r \in first_match(enc, pat, buf) :
         Apply("first_match", <<pat>>, r)

FirstMatchUnchecked ==
    /\ Fresh
    /\ IsValid
    /\ \E pat \in Patterns(enc) : \E r \in first_match_unchecked(enc, pat, buf) :
         Apply("first_match_unchecked", <<pat>>, r)

LastMatch ==
    /\ Fresh
    /\ IsValid
    /\ \E pat \in Patterns(enc) : \E r \in last_match(enc, pat, buf) :
         Apply("last_match", <<pat>>, r)

LastMatchUnchecked ==
    /\ Fresh
    /\ IsValid
    /\ \E pat \in Patterns(enc) : \E r \in last_match_unchecked(enc, pat, buf) :
         Apply("last_match_unchecked", <<pat>>, r)

Find ==
    /\ Fresh
    /\ IsValid
    /\ \E pat \in Patterns(enc) : \E r \in find(enc, buf, pat) :
         Apply("find", <<pat>>, r)

RFind ==
    /\ Fresh
    /\ IsValid
    /\ \E pat \in Patterns(enc) : \E r \in rfind(enc, buf, pat) :
         Apply("rfind", <<pat>>, r)

SplitOnce ==
    /\ Fresh
    /\ IsValid
    /\ \E pat \in Patterns(enc) : \E r \in split_once(enc, buf, pat) :
         Apply("split_once", <<pat>>, r)

RSplitOnce ==
    /\ Fresh
    /\ IsValid
    /\ \E pat \in Patterns(enc) : \E r \in rsplit_once(enc, buf, pat) :
         Apply("rsplit_once", <<pat>>, r)

NextSearch ==
    \/ FirstMatch
    \/ FirstMatchUnchecked
    \/ LastMatch
    \/ LastMatchUnchecked
    \/ Find
    \/ RFind
    \/ SplitOnce
    \/ RSplitOnce

SpecSearch == InitSearch /\ [][NextSearch]_vars

----------------------------------------------------------------------------
\* Splitting.  split / rsplit build an iterator over the validated haystack
\* `buf`; each call of next / next_back appends the item it returns to
\* `yielded`.

\* the patterns split by: scalars the alphabets can spell, a predicate, a
\* scalar set, and the needles of at most one unit (the empty one included)
SplitPatterns(e) ==
    {StrPattern(s) : s \in ValidSeqs(e, 1)}
    \cup (IF e \in DecodingEncodings
          THEN {CharPattern(c) : c \in {\h28, \h41, \hC2, \hFFFF, \h10000}}
               \cup {FnPattern(IsAscii)}
               \cup {CharsPattern({\h28, \h41, \h10000})}
          ELSE {})

Yield(call, ret) == [call |-> call, kind |-> ret.kind, item |-> ret.item]

\* calls are made until None has been returned twice (or MaxCalls times)
CanCall ==
    /\ op \in {"split", "rsplit", "next", "next_back"}
    /\ Len(yielded) < MaxCalls
    /\ Cardinality({i \in 1..Len(yielded) : yielded[i].kind = "None"}) < 2

Split ==
    /\ op = "init"
    /\ IsValid
    /\ \E pat \in SplitPatterns(enc) :
         /\ iter' = split(buf, pat)
         /\ op' = "split"
         /\ args' = <<pat>>
         /\ res' = <<>>
         /\ yielded' = <<>>
         /\ UNCHANGED <<enc, buf, origin>>

RSplit ==
    /\ op = "init"
    /\ IsValid
    /\ \E pat \in SplitPatterns(enc) :
         /\ iter' = rsplit(buf, pat)
         /\ op' = "rsplit"
         /\ args' = <<pat>>
         /\ res' = <<>>
         /\ yielded' = <<>>
         /\ UNCHANGED <<enc, buf, origin>>

Call(name, r) ==
    /\ iter' = r.iter
    /\ yielded' = Append(yielded, Yield(name, r.ret))
    /\ op' = name
    /\ res' = r.ret
    /\ UNCHANGED <<enc, buf, origin, args>>

SplitNext ==
    /\ CanCall
    /\ iter.kind = "split"
    /\ \E r \in Split_next(enc, iter) : Call("next", r)

\* next_back is explored for the single-scalar patterns
SplitNextBack ==
    /\ CanCall
    /\ iter.kind = "split"
    /\ iter.pat.kind = "char"
    /\ \E r \in Split_next_back(enc, iter) : Call("next_back", r)

RSplitNext ==
    /\ CanCall
    /\ iter.kind = "rsplit"
    /\ \E r \in RSplit_next(enc, iter) : Call("next", r)

NextSplit ==
    \/ Split
    \/ RSplit
    \/ SplitNext
    \/ SplitNextBack
    \/ RSplitNext

SpecSplit == InitSearch /\ [][NextSplit]_vars

----------------------------------------------------------------------------
\* Comparison, the checked constructors and the const-feature validators,
\* each applied once to a raw buffer.

\* the least, a middle and the greatest unit of each alphabet
CompareUnits(e) ==
    CASE e = "utf8" -> {\h00, \h82, \hFF}
      [] e = "utf16" -> {\h0000, \hD800, \hFFFF}
      [] e = "utf32" -> {\h0000, \h20AC, \h1F600}
      [] e = "raw" -> RawBytes

Compare ==
    /\ Fresh
    /\ \E r2 \in BoundedSeq(CompareUnits(enc), MaxArgLen) :
         Apply("compare", <<r2>>, compare(enc, buf, r2))

\* capacities N of ArrayString<N>
Capacities == 0..MaxLen

\* the operand is a &str: UTF-8 accepted by core::str::from_utf8
TryFromStr ==
    /\ Fresh
    /\ enc = "utf8"
    /\ IsValid
    /\ \E N \in Capacities : Apply("try_from", <<N>>, try_from_str(N, buf))

StrFromChars ==
    /\ Fresh
    /\ Apply("str_from_chars", <<>>, str_from_chars(validate_range(enc, buf), buf))

\* from_chars under the policy of its tests, on a buffer of u8
StrFromCharsTest ==
    /\ Fresh
    /\ enc = "raw"
    /\ Apply("str_from_chars_test", <<>>,
             str_from_chars(TestCharTraits_validate_range(buf), buf))

ValidateRangeConst16 ==
    /\ Fresh
    /\ enc = "utf16"
    /\ Apply("validate_range_const", <<>>, validate_range_u16_const(buf))

\* validate_subrange of the const build on the subrange lo..hi of a
\* validated buffer
ValidateSubrangeConst ==
    /\ Fresh
    /\ enc = "utf8"
    /\ IsValid
    /\ \E lo \in 0..Len(buf) : \E hi \in lo..Len(buf) :
         Apply("validate_subrange_const", <<lo, hi>>,
               validate_subrange_u8_const(Slice(buf, lo, hi)))

NextPolicy ==
    \/ Compare
    \/ TryFromStr
    \/ StrFromChars
    \/ StrFromCharsTest
    \/ ValidateRangeConst
    \/ ValidateRangeConst16
    \/ ValidateSubrangeConst

SpecPolicy == Init /\ [][NextPolicy]_vars

----------------------------------------------------------------------------
\* The owned string.  `buf` is first a Vec handed to from_chars (or
\* nothing, for new()), then the contents `inner` of the BasicString.

New ==
    /\ op = "init"
    /\ buf = <<>>
    /\ op' = "new"
    /\ args' = <<>>
    /\ res' = <<>>
    /\ UNCHANGED <<enc, buf, origin, iter, yielded>>

FromChars ==
    /\ op = "init"
    /\ op' = "from_chars"
    /\ args' = <<>>
    /\ res' = from_chars(enc, buf)
    /\ UNCHANGED <<enc, buf, origin, iter, yielded>>

\* the scalars pushed: one of each encoded length, U+20AC and U+FFFF
PushScalars == {\h28, \hE9, \h20AC, \hFFFF, \h10000}

\* a BasicString exists and `buf` is its contents
Owned ==
    \/ op \in {"new", "push", "push_str"}
    \/ op = "from_chars" /\ res.kind = "Ok"

Push ==
    /\ Owned
    /\ enc \in DecodingEncodings
    /\ \E c \in PushScalars :
         LET r == push(enc, buf, c)
         IN  /\ Len(r.inner) <= MaxLen
             /\ buf' = r.inner
             /\ op' = "push"
             /\ args' = <<c>>
             /\ res' = [kind |-> r.kind]
             /\ UNCHANGED <<enc, origin, iter, yielded>>

PushStr ==
    /\ Owned
    /\ \E s \in ValidSeqs(enc, MaxArgLen) :
         /\ Len(buf) + Len(s) <= MaxLen
         /\ buf' = push_str(buf, s)
         /\ op' = "push_str"
         /\ args' = <<s>>
         /\ res' = <<>>
         /\ UNCHANGED <<enc, origin, iter, yielded>>

NextString ==
    \/ New
    \/ FromChars
    \/ Push
    \/ PushStr

SpecString == Init /\ [][NextString]_vars

----------------------------------------------------------------------------
\* Properties.

\* the subrange named by the arguments of validate_subrange / get
ArgSlice == Slice(buf, args[1], args[2])

\* C1: safe slicing preserves UTF-8 validity: when get(range) on a validated
\* UTF-8 slice returns Some(t), the units of t pass validate_range.
C1_GetReturnsValidSlice ==
    (enc = "utf8" /\ op = "get" /\ res # None)
        => validate_range(enc, res[1]).kind = "Ok"

\* C2: UTF-8 validate_subrange never fails spuriously: splitting a validated
\* buffer at a scalar boundary (both halves pass validate_range) succeeds
\* on both halves, so split_at does not panic.
C2_SplitAtBoundarySucceeds ==
    (/\ enc = "utf8"
     /\ op = "split_at"
     /\ args[1] <= Len(buf)
     /\ validate_range(enc, Slice(buf, 0, args[1])).kind = "Ok"
     /\ validate_range(enc, Slice(buf, args[1], Len(buf))).kind = "Ok")
        => /\ res.kind = "Split"
           /\ validate_subrange(enc, Slice(buf, 0, args[1])).kind = "Ok"
           /\ validate_subrange(enc, Slice(buf, args[1], Len(buf))).kind = "Ok"

\* C3: on every subrange of a validated UTF-16 buffer, validate_subrange
\* fails exactly when the subrange starts with a low surrogate or ends with
\* a high surrogate, and it succeeds exactly when validate_range succeeds
\* on the same subrange.
C3_Utf16SubrangeAgreesWithRange ==
    (enc = "utf16" /\ op = "validate_subrange")
        => /\ (res.kind = "Err") <=>
                 (/\ ArgSlice # <<>>
                  /\ \/ ArgSlice[1] \in \hDC00..\hDFFF
                     \/ ArgSlice[Len(ArgSlice)] \in \hD800..\hDBFF)
           /\ (res.kind = "Ok") <=> (validate_range(enc, ArgSlice).kind = "Ok")
           /\ res.kind \in {"Ok", "Err"}

\* C3 witness: a cut through a surrogate pair of a validated buffer is
\* rejected, and a cut that keeps a whole pair is accepted.
C3_Witness ==
    /\ enc = "utf16"
    /\ op = "validate_subrange"
    /\ Len(buf) >= 3
    /\ \/ res.kind = "Err" /\ res.len = None
       \/ res.kind = "Err" /\ res.pos = 0
    /\ \E i \in 1..Len(ArgSlice) : IsHigh(ArgSlice[i]) \/ IsLow(ArgSlice[i])

\* Well-formed UTF-8 byte sequences (Unicode, table 3-7): one scalar value
WellFormedUtf8Scalar(q) ==
    \/ Len(q) = 1 /\ q[1] \in \h00..\h7F
    \/ Len(q) = 2 /\ q[1] \in \hC2..\hDF /\ q[2] \in \h80..\hBF
    \/ /\ Len(q) = 3
       /\ \/ q[1] = \hE0 /\ q[2] \in \hA0..\hBF
          \/ q[1] \in \hE1..\hEC /\ q[2] \in \h80..\hBF
          \/ q[1] = \hED /\ q[2] \in \h80..\h9F
          \/ q[1] \in \hEE..\hEF /\ q[2] \in \h80..\hBF
       /\ q[3] \in \h80..\hBF
    \/ /\ Len(q) = 4
       /\ \/ q[1] = \hF0 /\ q[2] \in \h90..\hBF
          \/ q[1] \in \hF1..\hF3 /\ q[2] \in \h80..\hBF
          \/ q[1] = \hF4 /\ q[2] \in \h80..\h8F
       /\ q[3] \in \h80..\hBF
       /\ q[4] \in \h80..\hBF

\* a buffer is well-formed when it is a concatenation of such sequences
RECURSIVE WellFormedUtf8(_)
WellFormedUtf8(s) ==
    \/ s = <<>>
    \/ \E k \in 1..4 :
         /\ k <= Len(s)
         /\ WellFormedUtf8Scalar(SubSeq(s, 1, k))
         /\ WellFormedUtf8(SubSeq(s, k + 1, Len(s)))

\* C4: UTF-8 validate_range (in the default and in the const build) returns
\* Ok exactly for the well-formed UTF-8 buffers, and for the bytes C3 28 it
\* fails with first invalid position 0 and defective length 1.
C4_Utf8ValidateRangeIsWellFormedness ==
    (enc = "utf8" /\ op \in {"validate_range", "validate_range_const"})
        => /\ (res.kind = "Ok") <=> WellFormedUtf8(buf)
           /\ res.kind \in {"Ok", "Err"}
           /\ buf = <<\hC3, \h28>> => res = Err(0, Some(1))

\* The UTF-16 units the claim C5 calls defective (0-based index i): a high
\* surrogate not immediately followed by a low one, or a low surrogate not
\* immediately preceded by a high one.
DefectiveUnit16(s, i) ==
    \/ /\ s[i + 1] \in \hD800..\hDBFF
       /\ ~(i + 2 <= Len(s) /\ s[i + 2] \in \hDC00..\hDFFF)
    \/ /\ s[i + 1] \in \hDC00..\hDFFF
       /\ ~(i >= 1 /\ s[i] \in \hD800..\hDBFF)

Defects16(s) == {i \in 0..Len(s) - 1 : DefectiveUnit16(s, i)}

FirstDefect16(s) == CHOOSE i \in Defects16(s) : \A j \in Defects16(s) : i <= j

\* C5 (as amended): UTF-16 validate_range returns Ok exactly when no unit
\* is defective; on failure the position is the index of the first
\* defective unit, and the length is unknown exactly when that first
\* defective unit is a high surrogate that is the last unit of the buffer.
C5_Utf16ValidateRange ==
    (enc = "utf16" /\ op = "validate_range")
        => /\ res.kind \in {"Ok", "Err"}
           /\ (res.kind = "Ok") <=> (Defects16(buf) = {})
           /\ res.kind = "Err" =>
                /\ res.pos = FirstDefect16(buf)
                /\ (res.len = None) <=>
                     (/\ res.pos = Len(buf) - 1
                      /\ buf[Len(buf)] \in \hD800..\hDBFF)

\* C5 (as claimed): UTF-16 validate_range returns Ok exactly when every
\* high surrogate is immediately followed by a low surrogate and every low
\* surrogate immediately preceded by a high one; on failure the position
\* is the index of the first defective unit, and the length is unknown
\* exactly when the buffer ends right after an unpaired high surrogate
\* (its last unit is a high surrogate).
C5_Utf16ValidateRangeAsClaimed ==
    (enc = "utf16" /\ op = "validate_range")
        => /\ res.kind \in {"Ok", "Err"}
           /\ (res.kind = "Ok") <=> (Defects16(buf) = {})
           /\ res.kind = "Err" =>
                /\ res.pos = FirstDefect16(buf)
                /\ (res.len = None) <=> (buf[Len(buf)] \in \hD800..\hDBFF)

\* C5 witness: an unpaired high surrogate at the end of a buffer, after a
\* well-formed pair, is reported as incomplete
C5_Witness ==
    /\ enc = "utf16"
    /\ op = "validate_range"
    /\ res.kind = "Err"
    /\ res.pos = 2
    /\ res.len = None
    /\ buf[1] \in \hD800..\hDBFF

\* C6: from_chars_with_null and from_chars_with_null_mut return a slice
\* (the whole buffer) if and only if the buffer is non-empty, its last
\* unit is the zero terminator, no earlier unit is, and the whole buffer
\* passes validate_range; otherwise they return None.
C6_FromCharsWithNull ==
    (op \in {"from_chars_with_null", "from_chars_with_null_mut"})
        => /\ (res # None) <=>
                 (/\ buf # <<>>
                  /\ buf[Len(buf)] = 0
                  /\ \A i \in 1..Len(buf) - 1 : buf[i] # 0
                  /\ validate_range(enc, buf).kind = "Ok")
           /\ res # None => res = Some(buf)

\* the (1-based) places of the zero terminators of a buffer
ZeroPlaces(s) == {i \in 1..Len(s) : s[i] = 0}

FirstZeroPlace(s) == CHOOSE i \in ZeroPlaces(s) : \A j \in ZeroPlaces(s) : i <= j

\* C7: split_from_chars (and split_from_chars_mut) fails when the buffer
\* holds no zero terminator or when the prefix up to and including the
\* first zero terminator does not pass validate_range; otherwise it
\* returns that prefix and the remainder, which together make up the buffer.
C7_SplitFromChars ==
    (op \in {"split_from_chars", "split_from_chars_mut"})
        => IF \/ ZeroPlaces(buf) = {}
              \/ validate_range(enc, SubSeq(buf, 1, FirstZeroPlace(buf))).kind # "Ok"
           THEN res = None
           ELSE /\ res # None
                /\ res[1].cstr = SubSeq(buf, 1, FirstZeroPlace(buf))
                /\ res[1].cstr \o res[1].rest = buf

\* C7 witness: a split before a remainder that holds a further terminator
C7_Witness ==
    /\ op = "split_from_chars"
    /\ res # None
    /\ Len(res[1].cstr) >= 2
    /\ ZeroPlaces(res[1].rest) # {}

\* the units encode writes for the scalar c
EncodedUnits(e, c) == encode(e, c, [i \in 1..max_encoding_len(e) |-> 0]).units

\* C8: encode/decode round trip: for UTF-8, UTF-16 and UTF-32 and every
\* scalar c, decode_buf on the units written by encode(c) yields c with an
\* empty remainder, and those units pass validate_range.
C8_EncodeDecodeRoundTrip ==
    /\ (origin # None /\ op = "decode_buf") => res = Decoded(origin[1], <<>>)
    /\ (origin # None /\ op = "validate_range") => res.kind = "Ok"

\* C9: UTF-16 forward decoding of a valid buffer: a leading surrogate pair
\* decodes to 0x10000 + ((high - 0xD800) << 10) + (low - 0xDC00) with the
\* remainder two units on; a leading non-surrogate unit decodes to its own
\* value with the remainder one unit on.
C9_Utf16ForwardDecode ==
    (/\ enc = "utf16"
     /\ op \in {"decode_buf", "decode_buf_unchecked"}
     /\ IsValid
     /\ buf # <<>>)
        => IF buf[1] \in \hD800..\hDBFF
           THEN res = Decoded(\h10000 + (buf[1] - \hD800) * 1024 + (buf[2] - \hDC00),
                              SubSeq(buf, 3, Len(buf)))
           ELSE res = Decoded(buf[1], SubSeq(buf, 2, Len(buf)))

\* C10: backward decoding mirrors forward decoding: on every non-empty
\* validated buffer decode_back and decode_back_unchecked return the last
\* scalar of the buffer with the prefix that precedes its units, that is a
\* scalar c and a prefix such that the prefix followed by the units of c is
\* the buffer.
C10_BackwardDecodeMirrorsForward ==
    (/\ enc \in DecodingEncodings
     /\ op \in {"decode_back", "decode_back_unchecked"}
     /\ IsValid
     /\ buf # <<>>)
        => /\ res.kind = "Char"
           /\ IsScalar(res.ch)
           /\ res.rest \o EncodedUnits(enc, res.ch) = buf

\* C11: push(c) on an owned buffer with contents B leaves the contents equal
\* to B followed by exactly the units that encode(c) writes, for every
\* scalar c and each encoding (the length grows by the number of units
\* written and no placeholder unit remains); pushing U+20AC onto an empty
\* UTF-8 buffer yields E2 82 AC.
C11_PushAppendsEncodedUnits ==
    [][op' = "push" =>
          /\ res'.kind = "Done"
          /\ buf' = buf \o EncodedUnits(enc, args'[1])
          /\ Len(buf') = Len(buf) + Len(EncodedUnits(enc, args'[1]))
          /\ push("utf8", <<>>, \h20AC).inner = <<\hE2, \h82, \hAC>>]_vars

\* C12: in every state in which an owned string exists (built by new or
\* from_chars and then changed by any sequence of push and push_str of a
\* validated slice), its contents pass validate_range.
C12_OwnedStringStaysValid == Owned => IsValid

\* C12 witness: a scalar of two units pushed after earlier contents
C12_Witness ==
    /\ enc = "utf8"
    /\ op = "push"
    /\ args = <<\hE9>>
    /\ Len(buf) = 4
    /\ buf[1] = \hC3

\* the contents before the push_str whose operand is args[1]
BeforePushStr == Slice(buf, 0, Len(buf) - Len(args[1]))

\* C13: concatenation closure, for UTF-8, UTF-16, UTF-32 and raw bytes: if
\* two sequences each pass validate_range, then so does their concatenation
\* (as built by push_str).
C13_ConcatenationClosure ==
    (/\ op = "push_str"
     /\ validate_range(enc, BeforePushStr).kind = "Ok"
     /\ validate_range(enc, args[1]).kind = "Ok")
        => /\ buf = BeforePushStr \o args[1]
           /\ validate_range(enc, buf).kind = "Ok"

\* C13 witness: two surrogate pairs joined
C13_Witness ==
    /\ enc = "utf16"
    /\ op = "push_str"
    /\ args = << <<\hD800, \hDC00>> >>
    /\ Len(buf) = 4
    /\ IsHigh(buf[1])

\* C14: from_chars(buf) validates once: when validate_range(buf) is Ok it
\* returns an owned string whose contents are buf; when it fails it returns
\* an error value that carries the error of validate_range and the
\* unchanged buffer, which into_bytes and as_bytes give back.
C14_FromCharsReturnsBuffer ==
    op = "from_chars" =>
        IF validate_range(enc, buf).kind = "Ok"
        THEN res = [kind |-> "Ok", inner |-> buf]
        ELSE /\ res.kind = "Err"
             /\ chars_error(res) = validate_range(enc, buf)
             /\ into_bytes(res) = buf
             /\ as_bytes(res) = buf

\* C14 witness: a rejected buffer whose defect is not at its start
C14_Witness ==
    /\ op = "from_chars"
    /\ res.kind = "Err"
    /\ chars_error(res).pos >= 1
    /\ Len(into_bytes(res)) >= 2

\* Reference linear scan: the offsets at which the units n occur in h
Occurrences(h, n) ==
    {i \in 0..(Len(h) - Len(n)) : SubSeq(h, i + 1, i + Len(n)) = n}

Least(S) == CHOOSE i \in S : \A j \in S : i <= j
Greatest(S) == CHOOSE i \in S : \A j \in S : i >= j

\* the pattern of the search under inspection, its needle, its scalar
Pat == args[1]
Needle == Pat.units
PatChar == CHOOSE c \in Pat.chars : TRUE

\* C15: forward substring search agrees with a linear scan: for every
\* validated haystack h and needle n with len(n) <= len(h), find(n) is the
\* smallest offset at which n occurs in h, and none when there is no such
\* offset; a needle that occurs only at the last possible offset
\* len(h) - len(n) is found.
C15_FindAgreesWithLinearScan ==
    (op = "find" /\ Pat.kind = "str" /\ Len(Needle) <= Len(buf))
        => res = IF Occurrences(buf, Needle) = {} THEN NotFound
                 ELSE Found(Least(Occurrences(buf, Needle)))

\* C16: backward substring search agrees with a linear scan: for every
\* validated haystack h and needle n, rfind(n) is the greatest offset at
\* which n occurs in h, and none when n does not occur; it never panics.
C16_RFindAgreesWithLinearScan ==
    (op = "rfind" /\ Pat.kind = "str")
        => res = IF Occurrences(buf, Needle) = {} THEN NotFound
                 ELSE Found(Greatest(Occurrences(buf, Needle)))

\* the offsets at which the scalar c occurs in the validated haystack h
\* (the encodings are self-synchronising, so the units of c occur only at
\* scalar boundaries)
ScalarOccurrences(e, h, c) == Occurrences(h, EncodedUnits(e, c))

\* the two sides of the occurrence of c at offset i
SidesOf(e, h, c, i) ==
    SplitPair(SubSeq(h, 1, i),
              SubSeq(h, i + Len(EncodedUnits(e, c)) + 1, Len(h)))

\* C17: split_once with a single-scalar delimiter returns none when the
\* scalar does not occur in the haystack, and otherwise (before, after)
\* around the first occurrence, so that before holds no occurrence;
\* split_once("a,b,c", ',') is ("a", "b,c").
C17_SplitOnceAtFirstScalar ==
    (op = "split_once" /\ Pat.kind = "char")
        => /\ res = IF ScalarOccurrences(enc, buf, PatChar) = {} THEN NoSplit
                    ELSE SidesOf(enc, buf, PatChar,
                                 Least(ScalarOccurrences(enc, buf, PatChar)))
           /\ res.kind = "Some" =>
                ScalarOccurrences(enc, res.before, PatChar) = {}
           /\ split_once("utf8", <<\h61, \h2C, \h62, \h2C, \h63>>, CharPattern(\h2C))
                = {SplitPair(<<\h61>>, <<\h62, \h2C, \h63>>)}

\* C18: rfind and rsplit_once with a single-scalar delimiter locate the
\* last occurrence: rfind returns the offset at which it starts (none when
\* there is no occurrence) and rsplit_once returns (before, after) around
\* it; rsplit_once("a,b,c", ',') is ("a,b", "c").
C18_RSplitOnceAtLastScalar ==
    (op \in {"rfind", "rsplit_once"} /\ Pat.kind = "char")
        => /\ op = "rfind" =>
                res = IF ScalarOccurrences(enc, buf, PatChar) = {} THEN NotFound
                      ELSE Found(Greatest(ScalarOccurrences(enc, buf, PatChar)))
           /\ op = "rsplit_once" =>
                res = IF ScalarOccurrences(enc, buf, PatChar) = {} THEN NoSplit
                      ELSE SidesOf(enc, buf, PatChar,
                                   Greatest(ScalarOccurrences(enc, buf, PatChar)))
           /\ rsplit_once("utf8", <<\h61, \h2C, \h62, \h2C, \h63>>, CharPattern(\h2C))
                = {SplitPair(<<\h61, \h2C, \h62>>, <<\h63>>)}

MatchOps == {"first_match", "first_match_unchecked", "last_match",
             "last_match_unchecked"}
SplitOps == {"split_once", "rsplit_once"}
FindOps == {"find", "rfind"}

\* C19: for every matcher kind (scalar, predicate, scalar set, substring),
\* in both directions, a match returned from a validated haystack is a
\* contiguous subslice of it: its start offset plus its length does not
\* exceed the length of the haystack, and the units before it, the match
\* and the units after it make up the haystack.
C19_MatchIsSubslice ==
    /\ (op \in MatchOps /\ res.kind = "Match")
          => /\ res.begin + res.len <= Len(buf)
             /\ SubSeq(buf, 1, res.begin)
                  \o SubSeq(buf, res.begin + 1, res.begin + res.len)
                  \o SubSeq(buf, res.begin + res.len + 1, Len(buf)) = buf
    /\ (op \in SplitOps /\ res.kind = "Some")
          => /\ Len(res.before) + Len(res.after) <= Len(buf)
             /\ res.before = SubSeq(buf, 1, Len(res.before))
             /\ res.after = SubSeq(buf, Len(buf) - Len(res.after) + 1, Len(buf))
    /\ (op \in FindOps /\ res.kind = "Some") => res.pos <= Len(buf)

\* C19 witness: a scalar matched after earlier scalars and before the end
\* of the haystack
C19_Witness ==
    /\ op = "first_match_unchecked"
    /\ Pat.kind = "fn"
    /\ res.kind = "Match"
    /\ res.begin >= 2
    /\ res.begin + res.len < Len(buf)

\* C20: for every matcher kind and both directions, a search of an empty
\* haystack, or a search for a needle longer than the haystack, returns no
\* match and does not panic.
C20_NoMatchOnEmptyOrShortHaystack ==
    (/\ op \in MatchOps \cup SplitOps \cup FindOps
     /\ \/ buf = <<>>
        \/ Pat.kind = "str" /\ Len(Needle) > Len(buf))
        => res.kind = "None"

\* C20 witness: a backward search for a needle of two units in a haystack
\* of one
C20_Witness ==
    /\ op = "rfind"
    /\ Pat.kind = "str"
    /\ Len(Needle) = 2
    /\ Len(buf) = 1
    /\ res.kind = "None"

\* Reference split: the segments of h around the successive occurrences of
\* the (non-empty) units u
RECURSIVE RefSplit(_, _)
RefSplit(h, u) ==
    IF Occurrences(h, u) = {} THEN <<h>>
    ELSE LET i == Least(Occurrences(h, u))
         IN  <<SubSeq(h, 1, i)>> \o RefSplit(SubSeq(h, i + Len(u) + 1, Len(h)), u)

Reverse(q) == [i \in 1..Len(q) |-> q[Len(q) + 1 - i]]

\* the reference segments of the haystack for the scalar split by
RefSegments == RefSplit(buf, EncodedUnits(enc, PatChar))

SplittingByScalar(kind) ==
    /\ op \in {"next", "next_back"}
    /\ iter.kind = kind
    /\ Pat.kind = "char"

\* C21: for a single-scalar matcher that occurs k times in a validated
\* haystack, repeated calls of Split::next yield exactly the k+1 segments in
\* order (the text before the first occurrence, the text between successive
\* occurrences, the final remainder once), and every later call returns
\* None.
C21_SplitNextYieldsSegments ==
    (/\ SplittingByScalar("split")
     /\ \A i \in 1..Len(yielded) : yielded[i].call = "next")
        => \A i \in 1..Len(yielded) :
              yielded[i] = IF i <= Len(RefSegments)
                           THEN Yield("next", SomeItem(RefSegments[i]))
                           ELSE Yield("next", NoItem)

\* what is left to split: nothing once the iterator is exhausted
Remaining(it) == IF it.rest = None THEN 0 ELSE Len(it.rest[1]) + 1

\* C22: the split sequence is finite for every validated haystack and every
\* matcher, the empty needle included: every call of Split::next either
\* returns None or leaves strictly less to split (a call that returns an
\* item and leaves the iterator as it was does so for ever).
C22_SplitNextMakesProgress ==
    [][(/\ op \in {"split", "next", "next_back"}
        /\ op' = "next"
        /\ iter.kind = "split")
          => \/ res'.kind = "None"
             \/ Remaining(iter') < Remaining(iter)]_vars

FrontItems ==
    SelectSeq(yielded, LAMBDA y : y.call = "next" /\ y.kind = "Some")
BackItems ==
    SelectSeq(yielded, LAMBDA y : y.call = "next_back" /\ y.kind = "Some")

\* C23: double-ended splitting by a single scalar with k occurrences: under
\* any interleaving of next and next_back, next yields the segments from
\* the front in order, next_back yields them from the back in order, no
\* segment is yielded twice or lost, and None is returned (from either end)
\* only once all k+1 segments have been yielded.
C23_DoubleEndedSplit ==
    SplittingByScalar("split")
        => /\ Len(FrontItems) + Len(BackItems) <= Len(RefSegments)
           /\ \A i \in 1..Len(FrontItems) :
                 /\ i <= Len(RefSegments)
                 /\ FrontItems[i].item = RefSegments[i]
           /\ \A i \in 1..Len(BackItems) :
                 /\ i <= Len(RefSegments)
                 /\ BackItems[i].item = RefSegments[Len(RefSegments) + 1 - i]
           /\ \A i \in 1..Len(yielded) : yielded[i].kind \in {"Some", "None"}
           /\ res.kind = "None" =>
                 Len(FrontItems) + Len(BackItems) = Len(RefSegments)

\* every complete sequence of items that repeated calls of Split::next can
\* yield from the iterator `it`, up to its exhaustion
RECURSIVE SplitRun(_, _)
SplitRun(e, it) ==
    IF it.rest = None THEN {<<>>}
    ELSE UNION {{<<r.ret>> \o t : t \in SplitRun(e, r.iter)}
                : r \in Split_next(e, it)}

\* the items yielded so far, without the call that yielded them
Items(ys) == [i \in 1..Len(ys) |-> [kind |-> ys[i].kind, item |-> ys[i].item]]

\* C24: for a single-scalar matcher and every validated haystack, the
\* sequence of slices yielded by rsplit is the sequence yielded by split in
\* reverse order.
C24_RSplitIsSplitReversed ==
    (/\ SplittingByScalar("rsplit")
     /\ res.kind = "None"
     /\ \A i \in 1..Len(yielded) - 1 : yielded[i].kind # "None")
        => Reverse(Items(SubSeq(yielded, 1, Len(yielded) - 1)))
               \in SplitRun(enc, split(buf, Pat))

\* the order of two sequences of raw elements: decided by the first index
\* at which they differ, else by their lengths
LexOrder(a, b) ==
    LET l == IF Len(a) < Len(b) THEN Len(a) ELSE Len(b)
        diff == {i \in 1..l : a[i] # b[i]}
    IN  IF diff # {} THEN
            IF a[Least(diff)] < b[Least(diff)] THEN "Less" ELSE "Greater"
        ELSE IF Len(a) < Len(b) THEN "Less"
        ELSE IF Len(a) > Len(b) THEN "Greater"
        ELSE "Equal"

IsProperPrefix(a, b) == Len(a) < Len(b) /\ a = SubSeq(b, 1, Len(a))

C26_TryFromStrChecksLength ==
    op = "try_from"
        => IF Len(buf) # args[1]
           THEN res = LengthError(Len(buf))
           ELSE res.kind = "Ok" /\ array_as_chars(res) = buf

\* a text of four bytes converted to capacity 3 reports the length 4
C26_Witness ==
    /\ op = "try_from"
    /\ args[1] = 3
    /\ Len(buf) = 4
    /\ res = LengthError(4)

\* the result of validate_range of the policy from_chars was called for
ValidationOfPolicy ==
    IF op = "str_from_chars_test" THEN TestCharTraits_validate_range(buf)
    ELSE validate_range(enc, buf)

\* C27: BasicStr::from_chars(buf) returns Ok, with a slice whose as_chars
\* is buf, exactly when validate_range(buf) of the policy is Ok; otherwise
\* it returns the error of validate_range, and in the policy of the tests
\* that error's first_error_pos is the index of the first 0xff element.
C27_StrFromCharsValidates ==
    op \in {"str_from_chars", "str_from_chars_test"}
        => /\ res.kind = "Ok" <=> ValidationOfPolicy.kind = "Ok"
           /\ res.kind = "Ok" => str_as_chars(res) = buf
           /\ res.kind # "Ok" => res.kind = "Err" /\ res = ValidationOfPolicy
           /\ op = "str_from_chars_test" =>
                LET bad == {i \in 0..Len(buf) - 1 : buf[i + 1] = \hFF}
                IN  /\ res.kind = "Err" <=> bad # {}
                    /\ res.kind = "Err" => res.pos = Least(bad)

\* the buffer 00 ff 41 under the policy of the tests: the error is at 1
C27_Witness ==
    /\ op = "str_from_chars_test"
    /\ buf = <<\h00, \hFF, \h41>>
    /\ res.kind = "Err"
    /\ res.pos = 1

\* C28: for UTF-8, UTF-16 and UTF-32 and every scalar c, U+FFFF included,
\* encoding_len(c) is the number of units that encode writes for c.
C28_EncodingLenMatchesEncode ==
    op = "encode" => encoding_len(enc, args[1]) = Len(res.units)

\* C29: on every validated haystack the safe and the unchecked entry
\* points of the single-scalar matcher agree, for UTF-8 and for UTF-16:
\* first_match returns what first_match_unchecked returns and last_match
\* what last_match_unchecked returns.
C29_SafeAndUncheckedAgree ==
    (/\ op \in {"first_match", "first_match_unchecked",
                "last_match", "last_match_unchecked"}
     /\ enc \in {"utf8", "utf16"}
     /\ Pat.kind = "char")
        => /\ first_match(enc, Pat, buf) = first_match_unchecked(enc, Pat, buf)
           /\ last_match(enc, Pat, buf) = last_match_unchecked(enc, Pat, buf)

\* C30: in the const-feature build, validate_range of the UTF-8 and of the
\* UTF-16 policy and validate_subrange of the UTF-8 policy terminate on
\* every finite input: no iteration of their loops leaves the loop state
\* as it found it.
C30_ConstValidatorsTerminate ==
    op \in {"validate_range_const", "validate_subrange_const"}
        => res # Diverges

====
